---- MODULE Spec2Model ----
(***************************************************************************)
(* Model of the resilient request layer of the Smart WMS frontend.         *)
(*                                                                         *)
(* Session (CSRF) client: the process-wide CSRF_TOKEN, fetchCsrfToken, the *)
(* request interceptor and the response (recovery) interceptor of          *)
(* apiClient.  Execution is single-threaded and cooperative: every action  *)
(* below is one turn of the event loop.  It starts with a call from        *)
(* outside or with one network completion (a fetch settling, a body        *)
(* being read, a response arriving) and runs every promise continuation    *)
(* that follows from it, up to the next awaited network call: the          *)
(* interceptors, the code of fetchDashboardAll or of an order operation    *)
(* that was awaiting the request, and the requests that code issues.       *)
(* The turns of different logical requests interleave freely.              *)
(*                                                                         *)
(* Each handler is an operator from the state a turn has reached to the    *)
(* state it leaves, so that the handlers of one turn compose.              *)
(*                                                                         *)
(* Bearer client (src/lib/api.ts): the request interceptor that reads the  *)
(* stored authToken; it has no response interceptor.                       *)
(*                                                                         *)
(* Above both clients: fetchDashboardAll with its per-resource fallback,   *)
(* and the order operations that parse a composite identifier              *)
(* (updateOrderStatus, cancelInOutOrder, updateInOutRecord).               *)
(***************************************************************************)
EXTENDS Integers, Sequences, FiniteSets, TLC

\* ---------------------------------------------------------------- bounds
\* number of logical requests callers issue through apiClient
NumReq == 2
\* how far the clock advances
MaxClock == 2

\* ------------------------------------------------------------- constants
Undefined == "undefined"

\* CSRF_TOKEN = null / a header absent / no item in the storage
NoToken == "null"
\* the token values the token endpoints hand out; an endpoint may answer
\* two acquisitions with the same value or with different ones
ServerTokens == {"session-token", "rotated-token"}
\* error.response?.status of an error that carries no response
NoStatus == 0
\* config.params._t absent
NoParam == -1
\* a promise still pending / no error held
Pending == [kind |-> "pending", status |-> NoStatus, attempt |-> 0, hasConfig |-> FALSE]

\* the reads of the dashboard aggregator, in the order of the Promise.all array
ConsolidatedPath == "/api/dashboard/all"
FallbackPaths == <<"/api/items", "/api/users", "/api/inout/orders", "/api/inventory",
                   "/api/schedules", "/api/dashboard/summary">>

\* logical requests: 1..NumReq are issued by callers, the next one is the
\* consolidated dashboard read and the last Len(FallbackPaths) are the
\* fallback reads
Req == 1..NumReq
ConsolidatedId == NumReq + 1
FallbackIds == (NumReq + 2)..(NumReq + 1 + Len(FallbackPaths))
FallbackPathOf(r) == FallbackPaths[r - (NumReq + 1)]
DashReads == {ConsolidatedId} \cup FallbackIds

\* config.method as the interceptors can see it (m?: string)
Methods == {Undefined, "get", "head", "options", "post", "put", "patch", "delete"}
\* the verbs callers use where requests run concurrently
ConcurrentVerbs == {"get", "post"}

PrimaryPath == "/api/csrf"
SecondaryPath == "/csrf"
ResourcePath == "/api/resource"

\* how await fetch(...) of a token endpoint turns out: a response with r.ok,
\* a response without, or a rejection
FetchOutcomes == {"ok", "notOk", "transportFailure"}

\* how await r.json() turns out: a rejection, or a value j whose j?.token is
\* a token or is missing
Body(tok) == [decodes |-> TRUE, token |-> tok]
Undecodable == [decodes |-> FALSE, token |-> NoToken]
JsonOutcomesOf(T) == {Undecodable} \cup {Body(tok) : tok \in T \cup {NoToken}}
JsonOutcomes == JsonOutcomesOf(ServerTokens)
\* the same where the value of the token plays no part: the endpoints hand
\* out one value
OneTokenOutcomes == JsonOutcomesOf({"session-token"})

\* what the transport answers to a resource request: a status, or no response
Ok == 200
Forbidden == 403
MethodNotAllowed == 405
ResponseOutcomes == {Ok, Forbidden, MethodNotAllowed, NoStatus}
\* the answers tried where requests run concurrently
ConcurrentOutcomes == {Ok, Forbidden, NoStatus}
\* the answers tried on the aggregator's reads
ReadOutcomes == {Ok, Forbidden, NoStatus}

VARIABLES
  CSRF_TOKEN,   \* let CSRF_TOKEN: string | null
  now,          \* Date.now()
  pc,           \* where each logical request is suspended
  method,       \* config.method
  url,          \* config.url
  retriedOnce,  \* config._retriedOnce
  header,       \* config.headers['X-CSRF-TOKEN']
  tparam,       \* config.params._t
  acqFrom,      \* which await of fetchCsrfToken() is pending: "request" | "recovery"
  acqCalls,     \* the fetch calls of the fetchCsrfToken() invocation in progress
  acqErr,       \* what the last failed fetchCsrfToken() invocation threw
  origErr,      \* the error held by the response interceptor during recovery
  result,       \* what the request's promise settled with
  hist,         \* per request, the steps taken on its behalf, in order
  dpc,          \* where fetchDashboardAll is suspended
  dStart,       \* startTime of fetchDashboardAll
  fStart,       \* startTime of fetchDashboardAllFallback
  allRejected,  \* the first rejection the fallback's Promise.all has seen
  dResult,      \* what fetchDashboardAll settled with
  dData,        \* the fields of the snapshot fetchDashboardAll returned
  variant,      \* which client module is deployed: "session" | "bearer"
  authToken,    \* localStorage.getItem('authToken')
  authorization,\* config.headers.Authorization
  op,           \* the order operation that was called
  ident,        \* its identifier argument
  numericOrderId, \* const numericOrderId
  opc,          \* where the order operation is suspended
  oResult       \* what the order operation settled with

pipeVars == <<CSRF_TOKEN, pc, method, url, retriedOnce, header, tparam,
              acqFrom, acqCalls, acqErr, origErr, result, hist>>
dashVars == <<dpc, dStart, fStart, allRejected, dResult, dData>>
bearerVars == <<variant, authToken, authorization>>
opVars == <<op, ident, numericOrderId, opc, oResult>>
vars == <<pipeVars, now, dashVars, bearerVars, opVars>>
\* what no turn of the layer writes: the clock, the module in use, the storage
envVars == <<now, variant, authToken>>

\* the state the layer's code works on, as one value
State ==
  [CSRF_TOKEN |-> CSRF_TOKEN, pc |-> pc, method |-> method, url |-> url,
   retriedOnce |-> retriedOnce, header |-> header, tparam |-> tparam,
   acqFrom |-> acqFrom, acqCalls |-> acqCalls, acqErr |-> acqErr,
   origErr |-> origErr, result |-> result, hist |-> hist,
   authorization |-> authorization,
   dpc |-> dpc, dStart |-> dStart, fStart |-> fStart, allRejected |-> allRejected,
   dResult |-> dResult, dData |-> dData,
   op |-> op, ident |-> ident, numericOrderId |-> numericOrderId, opc |-> opc,
   oResult |-> oResult]

\* the turn ends in the state that end denotes
Becomes(end) ==
  \E s \in {end} :
    /\ CSRF_TOKEN' = s.CSRF_TOKEN
    /\ pc' = s.pc
    /\ method' = s.method
    /\ url' = s.url
    /\ retriedOnce' = s.retriedOnce
    /\ header' = s.header
    /\ tparam' = s.tparam
    /\ acqFrom' = s.acqFrom
    /\ acqCalls' = s.acqCalls
    /\ acqErr' = s.acqErr
    /\ origErr' = s.origErr
    /\ result' = s.result
    /\ hist' = s.hist
    /\ authorization' = s.authorization
    /\ dpc' = s.dpc
    /\ dStart' = s.dStart
    /\ fStart' = s.fStart
    /\ allRejected' = s.allRejected
    /\ dResult' = s.dResult
    /\ dData' = s.dData
    /\ op' = s.op
    /\ ident' = s.ident
    /\ numericOrderId' = s.numericOrderId
    /\ opc' = s.opc
    /\ oResult' = s.oResult

\* ----------------------------------------------------------- pure helpers
ToUpperCase(m) ==
  CASE m = "get" -> "GET"
    [] m = "head" -> "HEAD"
    [] m = "options" -> "OPTIONS"
    [] m = "post" -> "POST"
    [] m = "put" -> "PUT"
    [] m = "patch" -> "PATCH"
    [] m = "delete" -> "DELETE"
    [] OTHER -> m

isSafeMethodCaseSensitive(m) ==
  (IF m = Undefined THEN "GET" ELSE m) \in {"GET", "HEAD", "OPTIONS"}
isSafeMethod(m) ==
  ToUpperCase(IF m = Undefined THEN "GET" ELSE m) \in {"GET", "HEAD", "OPTIONS"}

\* one step taken on behalf of a request, with the token it involved
Ev(e, t) == [ev |-> e, tok |-> t]

\* a config passed a request interceptor at clock reading at, when the token
\* tok was cached (or stored), and was given _t = t
Intercept(tok, at, t) == [ev |-> "intercept", tok |-> tok, at |-> at, t |-> t]

\* how many steps of kind e the history s holds
Count(s, e) == Cardinality({i \in 1..Len(s) : s[i].ev = e})

\* errors; h is the history of the request, which tells the transmission
\* that was answered
HttpError(h, status) ==
  [kind |-> "http", status |-> status, attempt |-> Count(h, "send"), hasConfig |-> TRUE]
NetworkError(h) ==
  [kind |-> "network", status |-> NoStatus, attempt |-> Count(h, "send"), hasConfig |-> TRUE]
TokenUnavailable ==
  [kind |-> "tokenUnavailable", status |-> NoStatus, attempt |-> 0, hasConfig |-> FALSE]
FetchTypeError ==
  [kind |-> "fetchTypeError", status |-> NoStatus, attempt |-> 0, hasConfig |-> FALSE]
JsonSyntaxError ==
  [kind |-> "jsonSyntaxError", status |-> NoStatus, attempt |-> 0, hasConfig |-> FALSE]

Success(h) ==
  [kind |-> "ok", status |-> Ok, attempt |-> Count(h, "send"), hasConfig |-> TRUE]

\* what fetchDashboardAll settles with
DashPending == [kind |-> "pending", via |-> "none", totalLoadTime |-> 0, error |-> Pending]
Snapshot(via, loadTime) ==
  [kind |-> "snapshot", via |-> via, totalLoadTime |-> loadTime, error |-> Pending]
DashError(err) == [kind |-> "error", via |-> "fallback", totalLoadTime |-> 0, error |-> err]

\* the result of Number(...): NaN, or a number
NotANumber == [nan |-> TRUE, val |-> 0]
Num(n) == [nan |-> FALSE, val |-> n]

\* an identifier argument: a string, as the sequence of its characters, or
\* (cancelInOutOrder only) a number
StringId(cs) == [isString |-> TRUE, chars |-> cs, num |-> 0]
NumberId(n) == [isString |-> FALSE, chars |-> <<>>, num |-> n]

\* the value of the authToken item when one is stored
StoredToken == "stored-token"
Variants == {"session", "bearer"}

\* no snapshot returned
NoData == [items |-> <<>>, users |-> <<>>, orders |-> <<>>, inventory |-> <<>>,
           schedules |-> <<>>, summary |-> [none |-> TRUE]]

\* ------------------------------------------------------------------ Init
\* the state in which callers find the module of variant v, for the requests
\* in R: t in the authToken item of the storage, c in the CSRF token store
InitStore(R, v, t, c) ==
  /\ variant = v
  /\ authToken = t
  /\ authorization = [r \in R |-> NoToken]
  /\ dData = NoData
  /\ op = "none"
  /\ ident = StringId(<<>>)
  /\ numericOrderId = NotANumber
  /\ opc = "idle"
  /\ oResult = Pending
  /\ CSRF_TOKEN = c
  /\ now = 0
  /\ pc = [r \in R |-> "idle"]
  /\ method = [r \in R |-> Undefined]
  /\ url = [r \in R |-> Undefined]
  /\ retriedOnce = [r \in R |-> FALSE]
  /\ header = [r \in R |-> NoToken]
  /\ tparam = [r \in R |-> NoParam]
  /\ acqFrom = [r \in R |-> "none"]
  /\ acqCalls = [r \in R |-> <<>>]
  /\ acqErr = [r \in R |-> Pending]
  /\ origErr = [r \in R |-> Pending]
  /\ result = [r \in R |-> Pending]
  /\ hist = [r \in R |-> <<>>]
  /\ dpc = "idle"
  /\ dStart = 0
  /\ fStart = 0
  /\ allRejected = Pending
  /\ dResult = DashPending

\* the state after the module of variant v is loaded: no CSRF token is cached
InitWith(R, v, t) == InitStore(R, v, t, NoToken)

\* the state after the session client's module is loaded
InitOf(R) == InitWith(R, "session", NoToken)

\* callers' requests only
Init == InitOf(Req)

\* the aggregator's reads only, under either client; the dashboard is shown
\* to a logged-in user, whose token the bearer client finds stored
InitDash ==
  \E v \in Variants :
    InitWith(DashReads, v, IF v = "bearer" THEN StoredToken ELSE NoToken)

\* ------------------------------------------------- the request pipeline
\* !CSRF_TOKEN
NoTokenCachedNever(tok) == FALSE
NoTokenCachedAlways(tok) == TRUE
NoTokenCached(tok) == tok = NoToken

\* the calls fetchCsrfToken() has made when it first suspends: fetch(path,
\* { credentials: 'include' }), which is given no _t
FirstFetch == <<[url |-> PrimaryPath, res |-> "pending", t |-> NoParam]>>
\* the calls it has made when it suspends on fetch('/csrf'); got tells
\* whether /api/csrf had yielded a token
SecondFetch(got) ==
  <<[url |-> PrimaryPath, res |-> got, t |-> NoParam],
    [url |-> SecondaryPath, res |-> "pending", t |-> NoParam]>>

\* 'X-CSRF-TOKEN': CSRF_TOKEN!
AttachedHeaderOmitted(tok) == NoToken
AttachedHeader(tok) == tok

\* config.params = { ...(config.params || {}), _t: Date.now() }: the clock
\* reading replaces whatever _t the config held
CacheBusterKept(t, held) == IF held # NoParam THEN held ELSE t
CacheBuster(t, held) == t

\* The request interceptor, run for the configs of the requests in S (the
\* requests issued in one synchronous stretch each reach it before anything
\* else runs): _t for every request; for an unsafe method the cached token,
\* or fetchCsrfToken() first when none is cached.
RequestInterceptor(s, S) ==
  LET acquires(r) == ~isSafeMethod(s.method[r]) /\ NoTokenCached(s.CSRF_TOKEN)
      attaches(r) == ~isSafeMethod(s.method[r]) /\ ~NoTokenCached(s.CSRF_TOKEN)
      hdr(r) == IF attaches(r) THEN AttachedHeader(s.CSRF_TOKEN) ELSE s.header[r]
      t(r) == CacheBuster(now, s.tparam[r])
      R == DOMAIN s.pc
  IN [s EXCEPT
       !.tparam = [r \in R |-> IF r \in S THEN t(r) ELSE s.tparam[r]],
       !.header = [r \in R |-> IF r \in S THEN hdr(r) ELSE s.header[r]],
       !.pc = [r \in R |-> IF r \notin S THEN s.pc[r]
                           ELSE IF acquires(r) THEN "acquiring" ELSE "sent"],
       !.acqFrom = [r \in R |-> IF r \in S /\ acquires(r) THEN "request" ELSE s.acqFrom[r]],
       !.acqCalls = [r \in R |-> IF r \in S /\ acquires(r) THEN FirstFetch ELSE s.acqCalls[r]],
       !.hist = [r \in R |-> IF r \notin S THEN s.hist[r]
                             ELSE s.hist[r] \o <<Intercept(s.CSRF_TOKEN, now, t(r))>> \o
                                  (IF acquires(r) THEN <<Ev("acquire", NoToken)>>
                                   ELSE <<Ev("send", hdr(r))>>)]]

\* CSRF_TOKEN = await fetchCsrfToken(): the token returned is stored whatever
\* the store holds by then
AssignedIfEmpty(tok, held) == IF held = NoToken THEN tok ELSE held
Assigned(tok, held) == tok

\* fetchCsrfToken() returned tok to the await that was pending on it. In the
\* request interceptor the token is stored, set as the header, and the config
\* is returned: the request is dispatched. In the error handler the token is
\* stored, set as the header, and apiClient(original) is called: the request
\* interceptor runs for the re-issued config in the same turn, so it reads
\* the token just assigned.
AcquisitionReturns(s, r, tok) ==
  LET held == Assigned(tok, s.CSRF_TOKEN)
      s1 == [s EXCEPT !.CSRF_TOKEN = held,
                      !.header[r] = AttachedHeader(held),
                      !.acqCalls[r] = <<>>,
                      !.acqFrom[r] = "none"]
  IN IF s.acqFrom[r] = "request"
     THEN [s1 EXCEPT !.pc[r] = "sent",
                     !.hist[r] = @ \o <<Ev("acquired", tok), Ev("send", s1.header[r])>>]
     ELSE RequestInterceptor(
            [s1 EXCEPT !.hist[r] = @ \o <<Ev("acquired", tok), Ev("reissue", held)>>], {r})

\* What the caller's promise rejects with when fetchCsrfToken() throws err:
\* in the request interceptor err itself (the response interceptor rethrows
\* it); in the error handler catch {} drops err and "throw error" rethrows
\* the response error orig.
ThrownOriginalAlways(from, err, orig) == orig
Thrown(from, err, orig) == IF from = "request" THEN err ELSE orig

\* fetchCsrfToken() threw err into the await that was pending on it
AcquisitionThrows(s, r, err) ==
  [s EXCEPT !.acqErr[r] = err,
            !.acqCalls[r] = <<>>,
            !.acqFrom[r] = "none",
            !.pc[r] = "done",
            !.hist[r] = @ \o <<Ev("acqFailed", NoToken)>>,
            !.result[r] = Thrown(s.acqFrom[r], err, s.origErr[r])]

\* await fetch('/api/csrf') settled: with r1.ok the body is read next,
\* otherwise (and when fetch rejected, which catch {} drops) /csrf is fetched
PrimaryResponse(s, r, o) ==
  IF o = "ok" THEN [s EXCEPT !.acqCalls[r][1].res = "ok"]
  ELSE [s EXCEPT !.acqCalls[r] = SecondFetch("none")]

\* what r.json() turned out to be
JsonOutcome(j) ==
  IF ~j.decodes THEN "undecodable"
  ELSE IF j.token = NoToken THEN "noTokenField" ELSE "token"

\* does fetchCsrfToken() go on to fetch('/csrf') after this body of /api/csrf
PrimaryFallsThroughAlways(j) == TRUE
PrimaryFallsThrough(j) == JsonOutcome(j) # "token"

\* await r1.json() settled
PrimaryJson(s, r, j) ==
  IF PrimaryFallsThrough(j)
  THEN [s EXCEPT !.acqCalls[r] =
          SecondFetch(IF JsonOutcome(j) = "token" THEN "token" ELSE "none")]
  ELSE AcquisitionReturns(s, r, j.token)

\* what fetchCsrfToken() throws when /csrf does not yield a token
SecondaryThrows(o) ==
  CASE o = "transportFailure" -> FetchTypeError
    [] o = "undecodable" -> JsonSyntaxError
    [] OTHER -> TokenUnavailable

\* await fetch('/csrf') settled: with r2.ok the body is read next
SecondaryResponse(s, r, o) ==
  IF o = "ok" THEN [s EXCEPT !.acqCalls[r][2].res = "ok"]
  ELSE AcquisitionThrows(s, r, SecondaryThrows(o))

\* await r2.json() settled
SecondaryJson(s, r, j) ==
  IF JsonOutcome(j) = "token"
  THEN AcquisitionReturns(s, r, j.token)
  ELSE AcquisitionThrows(s, r, SecondaryThrows(JsonOutcome(j)))

\* is the named await of fetchCsrfToken() pending for r: the fetch of the
\* i-th endpoint, or the reading of its body
FetchPending(r, i) ==
  pc[r] = "acquiring" /\ Len(acqCalls[r]) = i /\ acqCalls[r][i].res = "pending"
JsonPending(r, i) ==
  pc[r] = "acquiring" /\ Len(acqCalls[r]) = i /\ acqCalls[r][i].res = "ok"

\* apiClient.<verb>(path, ...) is called for request r
Configured(s, r, m, path) == [s EXCEPT !.method[r] = m, !.url[r] = path]

\* the condition of the response interceptor's error handler
ShouldRecoverAgain(error, retried, m) ==
  /\ error.status = Forbidden
  /\ error.hasConfig
  /\ ~isSafeMethod(m)
ShouldRecoverOn401(error, retried, m) ==
  /\ error.status = 401
  /\ error.hasConfig
  /\ ~retried
  /\ ~isSafeMethod(m)
ShouldRecoverAnyVerb(error, retried, m) ==
  /\ error.status = Forbidden
  /\ error.hasConfig
  /\ ~retried
ShouldRecover(error, retried, m) ==
  /\ error.status = Forbidden
  /\ error.hasConfig
  /\ ~retried
  /\ ~isSafeMethod(m)

\* CSRF_TOKEN = null
InvalidatedKept(tok) == tok
Invalidated(tok) == NoToken

\* original._retriedOnce: the mark is kept on the config of the request
\* itself, so every apiClient call starts unmarked
RetriedOnceAnywhere(s, r) == \E q \in DOMAIN s.retriedOnce : s.retriedOnce[q]
RetriedOnce(s, r) == s.retriedOnce[r]

\* the transport settles the request that is in flight
Response(s, r, o) ==
  IF o = Ok
  THEN [s EXCEPT !.result[r] = Success(s.hist[r]), !.pc[r] = "done"]
  ELSE LET error == IF o = NoStatus THEN NetworkError(s.hist[r]) ELSE HttpError(s.hist[r], o)
           held == Invalidated(s.CSRF_TOKEN)
       IN IF ShouldRecover(error, RetriedOnce(s, r), s.method[r])
          THEN [s EXCEPT !.retriedOnce[r] = TRUE,
                         !.CSRF_TOKEN = held,
                         !.origErr[r] = error,
                         !.pc[r] = "acquiring",
                         !.acqFrom[r] = "recovery",
                         !.acqCalls[r] = FirstFetch,
                         !.hist[r] = @ \o <<Ev("mark", NoToken), Ev("discard", held),
                                            Ev("acquire", NoToken)>>]
          ELSE [s EXCEPT !.result[r] = error, !.pc[r] = "done"]

InFlight(r) == pc[r] \notin {"idle", "done"}

\* ---------------------------------------------------- the bearer client
\* if (token) config.headers.Authorization = `Bearer ${token}`
BearerHeaderAlways(token, held) == StoredToken
BearerHeader(token, held) == IF token # NoToken THEN token ELSE held

\* The bearer client's request interceptor, run for the configs of the
\* requests in S: the stored token, when there is one, as the Authorization
\* header, then _t; the request is dispatched.
BearerRequestInterceptor(s, S) ==
  LET R == DOMAIN s.pc
      auth(r) == BearerHeader(authToken, s.authorization[r])
      t(r) == CacheBuster(now, s.tparam[r])
  IN [s EXCEPT
       !.authorization = [r \in R |-> IF r \in S THEN auth(r) ELSE s.authorization[r]],
       !.tparam = [r \in R |-> IF r \in S THEN t(r) ELSE s.tparam[r]],
       !.pc = [r \in R |-> IF r \in S THEN "sent" ELSE s.pc[r]],
       !.hist = [r \in R |-> IF r \notin S THEN s.hist[r]
                   ELSE s.hist[r] \o <<Intercept(authToken, now, t(r)), Ev("send", auth(r))>>]]

\* the transport settles a request of the bearer client: no response
\* interceptor is installed, the outcome is the caller's
BearerResponse(s, r, o) ==
  [s EXCEPT !.result[r] = IF o = Ok THEN Success(s.hist[r])
                          ELSE IF o = NoStatus THEN NetworkError(s.hist[r])
                          ELSE HttpError(s.hist[r], o),
            !.pc[r] = "done"]

\* ------------------------------------- apiClient of the deployed module
\* apiClient.get / put / patch (...): the configs of the requests in S reach
\* the request interceptor of the module in use
ApiClientDispatch(s, S) ==
  IF variant = "session" THEN RequestInterceptor(s, S) ELSE BearerRequestInterceptor(s, S)

\* the transport settles a request of the module in use
ApiClientSettles(s, r, o) ==
  IF variant = "session" THEN Response(s, r, o) ELSE BearerResponse(s, r, o)

\* ------------------------------------------------- dashboard aggregator
\* what the backend holds, in the shapes the module declares for it
BackendItems ==
  <<[itemId |-> 1, itemName |-> "bolt", itemCode |-> "B-1", itemGroup |-> "parts",
     spec |-> "M4", unit |-> "ea", unitPriceIn |-> 10, unitPriceOut |-> 12,
     createdAt |-> "2024-01-01"]>>
\* the second user has never logged in
BackendUsers ==
  <<[userId |-> 1, username |-> "kim", email |-> "kim@wms", fullName |-> "Kim",
     role |-> "ADMIN", status |-> "ACTIVE", lastLogin |-> "2025-01-01T09:00",
     joinedAt |-> "2024-01-01"],
    [userId |-> 2, username |-> "lee", email |-> "lee@wms", fullName |-> "Lee",
     role |-> "USER", status |-> "ACTIVE", lastLogin |-> "", joinedAt |-> ""]>>
BackendOrders ==
  <<[orderId |-> 482, type |-> "INBOUND", status |-> "PENDING",
     createdAt |-> "2025-01-01", updatedAt |-> "2025-01-02", companyName |-> "Acme",
     companyCode |-> "AC", expectedDate |-> "2025-02-01",
     items |-> <<[itemId |-> 1, itemName |-> "bolt", itemCode |-> "B-1",
                  specification |-> "M4", requestedQuantity |-> 5,
                  processedQuantity |-> 0]>>]>>
BackendInventory ==
  <<[itemId |-> 1, itemName |-> "bolt", locationCode |-> "A-01", quantity |-> 7,
     lastUpdated |-> "2025-01-03"]>>
BackendSchedules ==
  <<[scheduleId |-> 1, title |-> "count", startTime |-> "2025-01-04T09:00",
     endTime |-> "2025-01-04T10:00", type |-> "INVENTORY_CHECK"]>>
BackendSummary ==
  [totalItems |-> 1, totalInventory |-> 7, inboundPending |-> 1, outboundPending |-> 0]

\* response.data of GET /api/dashboard/all: DashboardData less totalLoadTime
ConsolidatedPayload ==
  [items |-> BackendItems, users |-> BackendUsers, orders |-> BackendOrders,
   inventory |-> BackendInventory, schedules |-> BackendSchedules,
   summary |-> BackendSummary]

\* toLocaleString('ko-KR', ...) / toLocaleDateString('ko-KR') of a timestamp
LocaleString(t) == "ko-KR " \o t
LocaleDateString(t) == "ko-KR date " \o t
\* the text shown for a user without lastLogin
NoLoginRecord == "no login record"

\* backendUsers.map(...) of fetchUsers
UserOf(user) ==
  [id |-> user.userId, username |-> user.username, email |-> user.email,
   fullName |-> user.fullName, role |-> user.role, status |-> user.status,
   lastLogin |-> IF user.lastLogin # "" THEN LocaleString(user.lastLogin) ELSE NoLoginRecord,
   createdAt |-> IF user.joinedAt # "" THEN LocaleDateString(user.joinedAt)
                 ELSE LocaleDateString(ToString(now))]
fetchUsers == [i \in 1..Len(BackendUsers) |-> UserOf(BackendUsers[i])]

\* users.map(u => ({ userId: u.id, ... })) of the fallback
SnapshotUser(u) ==
  [userId |-> u.id, username |-> u.username, email |-> u.email, fullName |-> u.fullName,
   role |-> u.role, status |-> u.status]

\* the object the fallback returns, less totalLoadTime
FallbackPayload ==
  [items |-> BackendItems,
   users |-> [i \in 1..Len(fetchUsers) |-> SnapshotUser(fetchUsers[i])],
   orders |-> BackendOrders, inventory |-> BackendInventory,
   schedules |-> BackendSchedules, summary |-> BackendSummary]


\* time passes
Tick ==
  /\ now < MaxClock
  /\ now' = now + 1
  /\ UNCHANGED <<pipeVars, dashVars, bearerVars, opVars>>

\* Date.now() - startTime
ElapsedNone(start, t) == 0
Elapsed(start, t) == t - start

\* the try block of fetchDashboardAll completes
DashReturn(s) ==
  [s EXCEPT !.dpc = "done",
            !.dResult = Snapshot("consolidated", Elapsed(s.dStart, now)),
            !.dData = ConsolidatedPayload]

\* does the catch block of fetchDashboardAll run for this settlement
ConsolidatedFailedOrNot(res) == res.kind # "pending"
ConsolidatedFailed(res) == res.kind \notin {"pending", "ok"}

\* the reads fetchDashboardAllFallback() hands to Promise.all
FallbackReads == FallbackIds

\* the accessors of the Promise.all array are called: six apiClient.get
FallbackDispatch(s) ==
  ApiClientDispatch(
    [s EXCEPT !.dpc = "fallback",
              !.method = [r \in DOMAIN s.pc |-> IF r \in FallbackReads THEN "get" ELSE s.method[r]],
              !.url = [r \in DOMAIN s.pc |->
                         IF r \in FallbackReads THEN FallbackPathOf(r) ELSE s.url[r]]],
    FallbackReads)

\* catch (error): fetchDashboardAllFallback() takes its own startTime and
\* calls the accessors
DashFallback(s) == FallbackDispatch([s EXCEPT !.fStart = now])

\* bearer client, catch (e): the accessors are called; no second start time
\* is taken
BearerDashFallback(s) == FallbackDispatch(s)

\* await Promise.all([...]) yields its array: every read has been fulfilled
PromiseAllSettled(res) == \A r \in FallbackReads : res[r].kind # "pending"
PromiseAllFulfilled(res) == \A r \in FallbackReads : res[r].kind = "ok"

\* await Promise.all([...]) throws: a read has been rejected
PromiseAllRejectedOrNot(rejection) == TRUE
PromiseAllRejected(rejection) == rejection # Pending

\* Promise.all fulfilled: the snapshot is assembled and timed from the
\* fallback's own start
FallbackReturn(s) ==
  [s EXCEPT !.dpc = "done",
            !.dResult = Snapshot("fallback", Elapsed(s.fStart, now)),
            !.dData = FallbackPayload]

\* bearer client, Promise.all fulfilled: the snapshot is assembled and timed
\* from the start of fetchDashboardAll
BearerFallbackReturn(s) ==
  [s EXCEPT !.dpc = "done",
            !.dResult = Snapshot("fallback", Elapsed(s.dStart, now)),
            !.dData = FallbackPayload]

\* Promise.all rejected: catch (error) ... throw error
FallbackThrow(s) ==
  [s EXCEPT !.dpc = "done", !.dResult = DashError(s.allRejected)]

\* bearer client, Promise.all rejected inside the catch block: the rejection
\* is fetchDashboardAll's
BearerFallbackThrow(s) ==
  [s EXCEPT !.dpc = "done", !.dResult = DashError(s.allRejected)]

\* The code that awaits read r resumes in the turn in which r settled. The
\* consolidated read: the snapshot is returned, or the catch block issues
\* the fallback reads. A fallback read: a rejection rejects the Promise.all
\* unless it is rejected already, and fetchDashboardAll goes on when the
\* Promise.all has settled.
DashResumes(s, r) ==
  IF s.pc[r] # "done" THEN s
  ELSE IF r = ConsolidatedId
  THEN IF s.dpc # "consolidated" THEN s
       ELSE IF ConsolidatedFailed(s.result[r])
       THEN (IF variant = "session" THEN DashFallback(s) ELSE BearerDashFallback(s))
       ELSE DashReturn(s)
  ELSE LET s1 == [s EXCEPT !.allRejected =
                     IF s.result[r].kind # "ok" /\ s.allRejected = Pending
                     THEN s.result[r] ELSE s.allRejected]
       IN IF s1.dpc # "fallback" THEN s1
          ELSE IF PromiseAllFulfilled(s1.result)
          THEN (IF variant = "session" THEN FallbackReturn(s1) ELSE BearerFallbackReturn(s1))
          ELSE IF PromiseAllRejected(s1.allRejected)
          THEN (IF variant = "session" THEN FallbackThrow(s1) ELSE BearerFallbackThrow(s1))
          ELSE s1

\* ------------------------------------------------------ order operations
\* The identifiers are strings over the digits, the letters a, b, c and '-';
\* a run of digits is at most nine long, so that its value is exact.
Digits == <<"0", "1", "2", "3", "4", "5", "6", "7", "8", "9">>
IsDigit(c) == \E d \in 1..10 : Digits[d] = c
DigitValue(c) == (CHOOSE d \in 1..10 : Digits[d] = c) - 1

\* the number a string of digits denotes in base b
RECURSIVE ValueIn(_, _)
ValueIn(b, cs) ==
  IF cs = <<>> THEN 0
  ELSE b * ValueIn(b, SubSeq(cs, 1, Len(cs) - 1)) + DigitValue(cs[Len(cs)])
DecimalValue(cs) == ValueIn(10, cs)

\* Number(text) over these characters: 0 for the empty string, the value of
\* an optionally signed run of decimal digits, the value of an unsigned
\* binary literal 0b..., NaN for anything else
Number(cs) ==
  LET AllDigits(t) == t # <<>> /\ \A i \in 1..Len(t) : IsDigit(t[i])
      AllBits(t) == t # <<>> /\ \A i \in 1..Len(t) : t[i] \in {"0", "1"}
  IN IF cs = <<>> THEN Num(0)
     ELSE IF AllDigits(cs) THEN Num(DecimalValue(cs))
     ELSE IF cs[1] = "-" /\ AllDigits(Tail(cs)) THEN Num(0 - DecimalValue(Tail(cs)))
     ELSE IF Len(cs) >= 3 /\ cs[1] = "0" /\ cs[2] = "b" /\ AllBits(SubSeq(cs, 3, Len(cs)))
     THEN Num(ValueIn(2, SubSeq(cs, 3, Len(cs))))
     ELSE NotANumber

\* text.includes('-')
Includes(cs) == \E i \in 1..Len(cs) : cs[i] = "-"

\* text.split('-')[0] (and, as the mutant, [1])
SecondSegment(cs) ==
  LET dashes == {i \in 1..Len(cs) : cs[i] = "-"}
      first == CHOOSE i \in dashes : \A j \in dashes : i <= j
      later == {i \in dashes : i > first}
      next == IF later = {} THEN Len(cs) + 1 ELSE CHOOSE i \in later : \A j \in later : i <= j
  IN IF dashes = {} THEN cs ELSE SubSeq(cs, first + 1, next - 1)
FirstSegment(cs) ==
  LET dashes == {i \in 1..Len(cs) : cs[i] = "-"}
      first == CHOOSE i \in dashes : \A j \in dashes : i <= j
  IN IF dashes = {} THEN cs ELSE SubSeq(cs, 1, first - 1)

\* const numericOrderId = ... of each operation
NumericOrderId(f, id) ==
  CASE f = "updateOrderStatus" -> Number(FirstSegment(id.chars))
    [] f = "cancelInOutOrder" ->
         IF id.isString THEN Number(FirstSegment(id.chars)) ELSE Num(id.num)
    [] f = "updateInOutRecord" ->
         Number(IF Includes(id.chars) THEN FirstSegment(id.chars) ELSE id.chars)

\* isNaN(numericOrderId)
isNaN(x) == x.nan

\* new Error("Invalid ... ID ...")
InvalidIdentifier ==
  [kind |-> "invalidIdentifier", status |-> NoStatus, attempt |-> 0, hasConfig |-> FALSE]

\* `/api/inout/orders/${numericOrderId}${suffix}`
OrderPath(n, suffix) == "/api/inout/orders/" \o ToString(n.val) \o suffix

Operations == {"updateOrderStatus", "cancelInOutOrder", "updateInOutRecord"}

\* the logical requests of one operation: one per probing step, and one
\* more than updateInOutRecord has steps, which a probe beyond the third
\* would use
ProbeId(k) == NumReq + 1 + Len(FallbackPaths) + k
MaxProbes == 3
ProbeIds == {ProbeId(k) : k \in 1..(MaxProbes + 1)}

\* the verb and path of step k of operation f
ProbeSwapped(f, k) ==
  CASE f = "updateOrderStatus" -> [verb |-> "put", suffix |-> "/status"]
    [] f = "cancelInOutOrder" -> [verb |-> "put", suffix |-> "/cancel"]
    [] f = "updateInOutRecord" ->
         IF k = 1 THEN [verb |-> "put", suffix |-> "/status"]
         ELSE IF k = 2 THEN [verb |-> "put", suffix |-> ""]
         ELSE [verb |-> "patch", suffix |-> ""]
Probe(f, k) ==
  CASE f = "updateOrderStatus" -> [verb |-> "put", suffix |-> "/status"]
    [] f = "cancelInOutOrder" -> [verb |-> "put", suffix |-> "/cancel"]
    [] f = "updateInOutRecord" ->
         IF k = 1 THEN [verb |-> "put", suffix |-> "/status"]
         ELSE IF k = 2 THEN [verb |-> "patch", suffix |-> ""]
         ELSE [verb |-> "put", suffix |-> ""]

\* the steps operation f has: the request of step 3 is awaited outside every
\* try block
StepsOneMore(f) == IF f = "updateInOutRecord" THEN MaxProbes + 1 ELSE 1
Steps(f) == IF f = "updateInOutRecord" THEN MaxProbes ELSE 1

\* the step the operation is waiting on
StepOf(c) ==
  CASE c = "step1" -> 1 [] c = "step2" -> 2 [] c = "step3" -> 3 [] c = "step4" -> 4
    [] OTHER -> 0
StepName(k) == <<"step1", "step2", "step3", "step4">>[k]

\* await apiClient.put / patch (path, data) of step k
IssueProbe(s, f, k, n) ==
  LET p == Probe(f, k)
  IN ApiClientDispatch(
       Configured([s EXCEPT !.opc = StepName(k)], ProbeId(k), p.verb, OrderPath(n, p.suffix)),
       {ProbeId(k)})

\* error?.response?.status === 405
ShouldProbeOnAnyFailure(error) == TRUE
ShouldProbe(error) == error.status = MethodNotAllowed

\* does a rejected step k of f go on to step k + 1
ProbesOnAnyOperation(f, k, error) == k < MaxProbes /\ ShouldProbe(error)
ProbesOn(f, k, error) == f = "updateInOutRecord" /\ k < Steps(f) /\ ShouldProbe(error)

\* The operation that awaits request r resumes in the turn in which r
\* settled: it returns the data, or its catch block issues the request of
\* the next step after a 405, or it throws the error.
OpResumes(s, r) ==
  LET k == StepOf(s.opc)
      res == s.result[r]
  IN IF k = 0 \/ r # ProbeId(k) \/ s.pc[r] # "done" THEN s
     ELSE IF res.kind # "ok" /\ ProbesOn(s.op, k, res)
     THEN IssueProbe(s, s.op, k + 1, s.numericOrderId)
     ELSE [s EXCEPT !.opc = "done", !.oResult = res]

\* the code that awaits request r, if any, resumes
Resumes(s, r) ==
  IF r \in ProbeIds THEN OpResumes(s, r)
  ELSE IF r \in DashReads THEN DashResumes(s, r)
  ELSE s

\* ------------------------------------------------------------- the turns
\* a caller issues request r (requests are numbered in the order they are
\* issued) with verb m: the request interceptor runs
Issue(r, m) ==
  /\ pc[r] = "idle"
  /\ \A q \in Req : q < r => pc[q] # "idle"
  /\ Becomes(RequestInterceptor(Configured(State, r, m, ResourcePath), {r}))

CallerIssues(r, m) == Issue(r, m) /\ UNCHANGED envVars

\* await fetch('/api/csrf') settles
PrimarySettles(r, o) ==
  /\ FetchPending(r, 1)
  /\ Becomes(Resumes(PrimaryResponse(State, r, o), r))
  /\ UNCHANGED envVars

\* await r1.json() settles
PrimaryJsonSettles(r, j) ==
  /\ JsonPending(r, 1)
  /\ Becomes(Resumes(PrimaryJson(State, r, j), r))
  /\ UNCHANGED envVars

\* await fetch('/csrf') settles
SecondarySettles(r, o) ==
  /\ FetchPending(r, 2)
  /\ Becomes(Resumes(SecondaryResponse(State, r, o), r))
  /\ UNCHANGED envVars

\* await r2.json() settles
SecondaryJsonSettles(r, j) ==
  /\ JsonPending(r, 2)
  /\ Becomes(Resumes(SecondaryJson(State, r, j), r))
  /\ UNCHANGED envVars

\* the transport settles a request of the session client
TransportSettles(r, o) ==
  /\ pc[r] = "sent"
  /\ Becomes(Resumes(Response(State, r, o), r))
  /\ UNCHANGED envVars

\* ------------------------------------ session client, concurrent requests
Next ==
  \/ \E r \in Req, m \in ConcurrentVerbs : CallerIssues(r, m)
  \/ \E r \in Req, o \in FetchOutcomes : PrimarySettles(r, o)
  \/ \E r \in Req, j \in JsonOutcomes : PrimaryJsonSettles(r, j)
  \/ \E r \in Req, o \in FetchOutcomes : SecondarySettles(r, o)
  \/ \E r \in Req, j \in JsonOutcomes : SecondaryJsonSettles(r, j)
  \/ \E r \in Req, o \in ConcurrentOutcomes : TransportSettles(r, o)

Spec == Init /\ [][Next]_vars

\* The same requests under the assumption that every transport call
\* settles: a pending fetch of either token endpoint, a body being read and
\* a request in flight are each eventually answered, with whatever outcome.
\* Which token value the endpoints hand out plays no part in whether a
\* request completes.
NextFair ==
  \/ \E r \in Req, m \in ConcurrentVerbs : CallerIssues(r, m)
  \/ \E r \in Req, o \in FetchOutcomes : PrimarySettles(r, o)
  \/ \E r \in Req, j \in OneTokenOutcomes : PrimaryJsonSettles(r, j)
  \/ \E r \in Req, o \in FetchOutcomes : SecondarySettles(r, o)
  \/ \E r \in Req, j \in OneTokenOutcomes : SecondaryJsonSettles(r, j)
  \/ \E r \in Req, o \in ConcurrentOutcomes : TransportSettles(r, o)

\* one of the network calls pending on behalf of r settles; at most one is
\* pending at a time
Settles(r) ==
  \/ \E o \in FetchOutcomes : PrimarySettles(r, o)
  \/ \E j \in OneTokenOutcomes : PrimaryJsonSettles(r, j)
  \/ \E o \in FetchOutcomes : SecondarySettles(r, o)
  \/ \E j \in OneTokenOutcomes : SecondaryJsonSettles(r, j)
  \/ \E o \in ConcurrentOutcomes : TransportSettles(r, o)

SpecFair == Init /\ [][NextFair]_vars /\ \A r \in Req : WF_vars(Settles(r))

\* ------------------------ session client, every verb, concurrent requests
\* the verbs tried for request r: any verb when the requests issued before
\* it use get or post, get or post otherwise (one request at most takes a
\* verb outside the two, and any request may be that one)
VerbsFor(r) ==
  IF \A q \in Req : q < r => method[q] \in ConcurrentVerbs
  THEN Methods ELSE ConcurrentVerbs

NextVerbs ==
  \/ \E r \in Req : \E m \in VerbsFor(r) : CallerIssues(r, m)
  \/ \E r \in Req, o \in FetchOutcomes : PrimarySettles(r, o)
  \/ \E r \in Req, j \in OneTokenOutcomes : PrimaryJsonSettles(r, j)
  \/ \E r \in Req, o \in FetchOutcomes : SecondarySettles(r, o)
  \/ \E r \in Req, j \in OneTokenOutcomes : SecondaryJsonSettles(r, j)
  \/ \E r \in Req, o \in ResponseOutcomes : TransportSettles(r, o)

SpecVerbs == Init /\ [][NextVerbs]_vars

\* ------------------------------------------- the aggregator, either client
\* fetchDashboardAll(): startTime, then apiClient.get('/api/dashboard/all')
DashStart ==
  /\ dpc = "idle"
  /\ Becomes(ApiClientDispatch(
       Configured([State EXCEPT !.dpc = "consolidated", !.dStart = now],
                  ConsolidatedId, "get", ConsolidatedPath),
       {ConsolidatedId}))
  /\ UNCHANGED envVars

\* the transport settles one of the aggregator's reads, and fetchDashboardAll
\* resumes if it was awaiting it
DashReadSettles(r, o) ==
  /\ pc[r] = "sent"
  /\ Becomes(DashResumes(ApiClientSettles(State, r, o), r))
  /\ UNCHANGED envVars

\* time passes while fetchDashboardAll is running
DashTick ==
  /\ dpc \in {"consolidated", "fallback"}
  /\ Tick

NextDash ==
  \/ DashTick
  \/ DashStart
  \/ \E r \in DashReads, o \in ReadOutcomes : DashReadSettles(r, o)

SpecDash == InitDash /\ [][NextDash]_vars

\* ----------------------- the aggregator in the session client, token store
\* the token an earlier state-mutating request left in the store
CachedToken == "cached-token"

\* fetchDashboardAll is called with the store empty or holding a token
InitDashSession ==
  \E c \in {NoToken, CachedToken} : InitStore(DashReads, "session", NoToken, c)

NextDashSession ==
  \/ DashTick
  \/ DashStart
  \/ \E r \in DashReads, o \in ReadOutcomes : DashReadSettles(r, o)

SpecDashSession == InitDashSession /\ [][NextDashSession]_vars

\* ------------------------------------------- one order operation
\* a caller calls f(id, ...): the identifier is parsed, and either the
\* operation throws or its first request is issued
OpCall(f, id) ==
  /\ opc = "idle"
  /\ f # "cancelInOutOrder" => id.isString
  /\ LET n == NumericOrderId(f, id)
         s == [State EXCEPT !.op = f, !.ident = id, !.numericOrderId = n]
     IN Becomes(IF isNaN(n)
                THEN [s EXCEPT !.opc = "done", !.oResult = InvalidIdentifier]
                ELSE IssueProbe(s, f, 1, n))
  /\ UNCHANGED envVars

\* the transport settles a request of the operation, and the operation
\* resumes
OpTransportSettles(r, o) ==
  /\ pc[r] = "sent"
  /\ Becomes(OpResumes(ApiClientSettles(State, r, o), r))
  /\ UNCHANGED envVars

\* the identifiers callers pass
Identifiers ==
  {StringId(<<"4", "8", "2", "-", "3">>), StringId(<<"7">>),
   StringId(<<"3", "-", "4", "8", "2">>), StringId(<<"a", "b", "c", "-", "3">>),
   StringId(<<"1", "2", "a", "-", "3">>), StringId(<<>>),
   StringId(<<"0", "-", "3">>), StringId(<<"-", "5", "-", "3">>),
   StringId(<<"0", "b", "1", "1", "-", "3">>),
   NumberId(482), NumberId(0), NumberId(0 - 5)}

\* one operation, under either client, with or without a stored bearer token
InitOrders ==
  \E v \in Variants, t \in {NoToken, StoredToken} :
    /\ v = "session" => t = NoToken
    /\ InitWith(ProbeIds, v, t)

NextOrders ==
  \/ \E f \in Operations, id \in Identifiers : OpCall(f, id)
  \/ \E r \in ProbeIds, o \in FetchOutcomes : PrimarySettles(r, o)
  \/ \E r \in ProbeIds, j \in JsonOutcomes : PrimaryJsonSettles(r, j)
  \/ \E r \in ProbeIds, o \in FetchOutcomes : SecondarySettles(r, o)
  \/ \E r \in ProbeIds, j \in JsonOutcomes : SecondaryJsonSettles(r, j)
  \/ \E r \in ProbeIds, o \in ResponseOutcomes : OpTransportSettles(r, o)

SpecOrders == InitOrders /\ [][NextOrders]_vars

\* --------------------------------------- bearer client, concurrent requests
\* The application outside this layer logs in or out: the item 'authToken'
\* of localStorage is written or removed. The layer only reads it.
StorageChanges(t) ==
  /\ t # authToken
  /\ authToken' = t
  /\ UNCHANGED <<pipeVars, now, dashVars, variant, authorization, opVars>>

\* a caller issues request r with verb m through the bearer client
BearerIssues(r, m) ==
  /\ pc[r] = "idle"
  /\ \A q \in Req : q < r => pc[q] # "idle"
  /\ Becomes(BearerRequestInterceptor(Configured(State, r, m, ResourcePath), {r}))
  /\ UNCHANGED envVars

BearerSettles(r, o) ==
  /\ pc[r] = "sent"
  /\ Becomes(BearerResponse(State, r, o))
  /\ UNCHANGED envVars

InitBearer == \E t \in {NoToken, StoredToken} : InitWith(Req, "bearer", t)

NextBearer ==
  \/ \E r \in Req, m \in Methods : BearerIssues(r, m)
  \/ \E r \in Req, o \in ConcurrentOutcomes : BearerSettles(r, o)
  \/ \E t \in {NoToken, StoredToken} : StorageChanges(t)

SpecBearer == InitBearer /\ [][NextBearer]_vars

\* ----------------------- either client, one request at a time, the clock
\* a caller issues request r with verb m through the module in use
ClientIssues(r, m) ==
  /\ pc[r] = "idle"
  /\ \A q \in Req : q < r => pc[q] = "done"
  /\ Becomes(ApiClientDispatch(Configured(State, r, m, ResourcePath), {r}))
  /\ UNCHANGED envVars

ClientSettles(r, o) ==
  /\ pc[r] = "sent"
  /\ Becomes(ApiClientSettles(State, r, o))
  /\ UNCHANGED envVars

InitClock ==
  \E v \in Variants : InitWith(Req, v, IF v = "bearer" THEN StoredToken ELSE NoToken)

NextClock ==
  \/ \E r \in Req, m \in ConcurrentVerbs : ClientIssues(r, m)
  \/ \E r \in Req, o \in FetchOutcomes : PrimarySettles(r, o)
  \/ \E r \in Req, j \in OneTokenOutcomes : PrimaryJsonSettles(r, j)
  \/ \E r \in Req, o \in FetchOutcomes : SecondarySettles(r, o)
  \/ \E r \in Req, j \in OneTokenOutcomes : SecondaryJsonSettles(r, j)
  \/ \E r \in Req, o \in ConcurrentOutcomes : ClientSettles(r, o)
  \/ Tick

SpecClock == InitClock /\ [][NextClock]_vars

\* ================================================================ claims
Sends(r) == Count(hist[r], "send")
Acquisitions(r) == Count(hist[r], "acquire")
Reissues(r) == Count(hist[r], "reissue")

\* the verbs other than GET, HEAD, OPTIONS
StateMutating(m) == m \in {"post", "put", "patch", "delete"}
ReadOnly(m) == m \in {Undefined, "get", "head", "options"}
Issued(r) == pc[r] # "idle"

\* the token sent with the k-th transmission of r
RECURSIVE NthIndex(_, _, _, _)
NthIndex(s, e, k, i) ==
  IF i > Len(s) THEN 0
  ELSE IF s[i].ev = e THEN (IF k = 1 THEN i ELSE NthIndex(s, e, k - 1, i + 1))
  ELSE NthIndex(s, e, k, i + 1)
SentToken(r, k) == hist[r][NthIndex(hist[r], "send", k, 1)].tok

\* tok was returned by some fetchCsrfToken() call
WasAcquired(tok) ==
  \E q \in Req : \E j \in 1..Len(hist[q]) : hist[q][j] = Ev("acquired", tok)

\* C1: each logical request is re-issued by the recovery interceptor at most
\* once and transmitted at most twice, whatever the interleaving and however
\* many 403 responses arrive.
C1_AtMostOneRetry ==
  \A r \in Req :
    /\ Reissues(r) <= 1
    /\ Count(hist[r], "mark") <= 1
    /\ Sends(r) <= 2

\* two concurrent requests have both been retried and rejected twice
C1_Witness ==
  \A r \in Req :
    /\ Sends(r) = 2
    /\ pc[r] = "done"
    /\ result[r].status = Forbidden
    /\ result[r].attempt = 2

\* C2: a state-mutating request whose first attempt is answered 403 is
\* retried exactly once when token acquisition succeeds, the retry carries
\* the token that the acquisition made after the rejection returned (the
\* endpoint may hand out the value it handed out before), and the outcome of
\* the retry (a second 403 included) is what the caller gets, with no further
\* retry or acquisition.
C2_OneRetryFreshToken ==
  \A r \in Req : StateMutating(method[r]) =>
    LET h == hist[r]
        n == Len(h)
        sends == {i \in 1..n : h[i].ev = "send"}
    IN
    \* a first-attempt 403 reaches the caller only when recovery could not
    \* acquire a token
    /\ (pc[r] = "done" /\ result[r].status = Forbidden /\ result[r].attempt = 1)
         => (retriedOnce[r] /\ h[n].ev = "acqFailed")
    \* a successful recovery acquisition re-issues the request once
    /\ (retriedOnce[r] /\ pc[r] \in {"sent", "done"} /\ h[n].ev # "acqFailed")
         => Reissues(r) = 1
    \* the retry carries a freshly acquired token, and nothing follows it
    /\ \A i \in sends : \A j \in sends : i < j =>
            /\ h[j].tok # NoToken
            /\ \E a \in (i + 1)..(j - 1) :
                 /\ h[a].ev = "acquired"
                 /\ h[a].tok = h[j].tok
                 /\ h[a - 1].ev = "acquire" /\ h[a - 2].ev = "discard"
            /\ j = n
    \* the retry's outcome is propagated
    /\ (pc[r] = "done" /\ Cardinality(sends) = 2) => result[r].attempt = 2

\* a retry was rejected with 403 and that rejection reached the caller; the
\* endpoint had handed out the same value for the retry as for the rejected
\* first attempt
C2_Witness ==
  \E r \in Req :
    /\ StateMutating(method[r])
    /\ Sends(r) = 2
    /\ pc[r] = "done"
    /\ result[r] = [kind |-> "http", status |-> Forbidden, attempt |-> 2, hasConfig |-> TRUE]
    /\ SentToken(r, 2) = SentToken(r, 1)

\* C3: a state-mutating request that finds the Token Store empty when it is
\* issued has exactly one token acquisition performed for it before it is
\* transmitted, and that acquisition has completed by then.
C3_AcquireBeforeSend ==
  \A r \in Req :
    (Issued(r) /\ StateMutating(method[r]) /\ hist[r][1].tok = NoToken) =>
      /\ Len(hist[r]) >= 2
      /\ hist[r][2].ev = "acquire"
      /\ Sends(r) >= 1 =>
           /\ hist[r][3].ev = "acquired"
           /\ hist[r][3].tok # NoToken
           /\ hist[r][4] = Ev("send", hist[r][3].tok)

\* two requests were both issued on an empty store and both transmitted
C3_Witness ==
  \A r \in Req :
    /\ StateMutating(method[r])
    /\ Issued(r)
    /\ hist[r][1].tok = NoToken
    /\ Sends(r) >= 1

\* C4: recovery proceeds in the order mark as retried, discard the cached
\* token (the store is empty right after), acquire, re-issue; the retry is
\* transmitted only after the acquisition has completed.
C4_RecoveryOrder ==
  \A r \in Req :
    LET h == hist[r]
        n == Len(h)
    IN
    /\ retriedOnce[r] <=> (\E i \in 1..n : h[i].ev = "mark")
    /\ \A i \in 1..n : h[i].ev = "mark" =>
         /\ n >= i + 2
         /\ h[i + 1] = Ev("discard", NoToken)
         /\ h[i + 2].ev = "acquire"
         /\ \A j \in (i + 1)..n : h[j].ev \in {"reissue", "send"} =>
              /\ j >= i + 4
              /\ h[i + 3].ev = "acquired"
              /\ h[i + 4].ev = "reissue"
              /\ h[j].ev = "send" => j > i + 4

\* a request went through recovery and was transmitted a second time while
\* another request had started an acquisition of its own
C4_Witness ==
  \E r \in Req :
    /\ Sends(r) = 2
    /\ Reissues(r) = 1
    /\ \E q \in Req : q # r /\ Acquisitions(q) >= 1

\* C5: no state-mutating request is transmitted, on a first attempt or a
\* retry, without an X-CSRF-TOKEN header holding a token that a token
\* acquisition returned.
C5_MutatingCarriesToken ==
  \A r \in Req : StateMutating(method[r]) =>
    /\ \A i \in 1..Len(hist[r]) :
         hist[r][i].ev = "send" => (hist[r][i].tok # NoToken /\ WasAcquired(hist[r][i].tok))
    /\ pc[r] = "sent" => (header[r] # NoToken /\ WasAcquired(header[r]))

\* a mutating request is in flight carrying a token another request acquired
C5_Witness ==
  \E r \in Req :
    /\ StateMutating(method[r])
    /\ pc[r] = "sent"
    /\ Acquisitions(r) = 0
    /\ header[r] # NoToken

\* C6: a request with a read-only verb (GET, HEAD, OPTIONS or none) never
\* gets the token header, never triggers an acquisition and never changes
\* the Token Store; no token is fetched before the first mutating request.
C6_ReadOnlyInv ==
  /\ \A r \in Req : (Issued(r) /\ ReadOnly(method[r])) =>
       /\ header[r] = NoToken
       /\ Acquisitions(r) = 0
       /\ \A i \in 1..Len(hist[r]) : hist[r][i].ev = "send" => hist[r][i].tok = NoToken
       /\ pc[r] \in {"sent", "done"}
  /\ (\A r \in Req : Issued(r) => ReadOnly(method[r])) => CSRF_TOKEN = NoToken
C6_ReadOnlyStep ==
  \A r \in Req :
    (pc'[r] # pc[r] /\ ReadOnly(method'[r])) => CSRF_TOKEN' = CSRF_TOKEN
C6_ReadOnlyUntouched == []C6_ReadOnlyInv /\ [][C6_ReadOnlyStep]_vars

\* a HEAD request, or a request without a verb, completed while a token was
\* cached
C6_Witness ==
  /\ CSRF_TOKEN # NoToken
  /\ \E r \in Req : pc[r] = "done" /\ method[r] \in {"head", Undefined} /\ header[r] = NoToken

\* C7: an acquisition contacts /api/csrf first and /csrf only when /api/csrf
\* did not yield a token, makes at most two calls, never goes back to the
\* primary and never requests the resource path.
C7_EndpointOrder ==
  \A r \in Req :
    LET c == acqCalls[r] IN
    /\ Len(c) <= 2
    /\ (pc[r] = "acquiring") <=> (Len(c) >= 1)
    /\ Len(c) >= 1 => c[1].url = PrimaryPath
    /\ Len(c) = 1 => c[1].res \in {"pending", "ok"}
    /\ Len(c) = 2 =>
         (c[1].res = "none" /\ c[2].url = SecondaryPath /\ c[2].res \in {"pending", "ok"})
    /\ \A i \in 1..Len(c) : c[i].url # url[r]
    /\ pc[r] = "acquiring" => hist[r][Len(hist[r])].ev = "acquire"

\* an acquisition has gone on to the secondary endpoint
C7_Witness ==
  \E r \in Req : pc[r] = "acquiring" /\ Len(acqCalls[r]) = 2

\* C8: whenever neither endpoint yields a token, however the endpoints fail,
\* fetchCsrfToken fails with the token-unavailable error.
C8_TokenUnavailable ==
  \A r \in Req : acqErr[r] # Pending => acqErr[r].kind = "tokenUnavailable"

\* C9: a failure that is not a 403, or that answers a read-only request or a
\* request already retried, reaches the caller as it is: no retry, no
\* acquisition, Token Store unchanged.
C9_Step ==
  \A r \in Req :
    (pc[r] = "sent" /\ pc'[r] # "sent") =>
      \* recovery starts only for a first 403 of a mutating request
      /\ pc'[r] \in {"done", "acquiring"}
      /\ pc'[r] = "acquiring" =>
           (StateMutating(method[r]) /\ ~retriedOnce[r] /\ origErr'[r].status = Forbidden)
      \* every other failure is handed to the caller
      /\ (pc'[r] = "done" /\ result'[r].kind # "ok") =>
           /\ result'[r].kind \in {"http", "network"}
           /\ result'[r].attempt = Sends(r)
           /\ (result'[r].status = Forbidden => (ReadOnly(method[r]) \/ retriedOnce[r]))
           /\ CSRF_TOKEN' = CSRF_TOKEN
           /\ hist'[r] = hist[r]
           /\ retriedOnce'[r] = retriedOnce[r]
C9_PropagatedUnchanged == [][C9_Step]_vars

\* a read-only request was refused with 403, another request failed without
\* a response, and a token is cached
C9_Witness ==
  /\ CSRF_TOKEN # NoToken
  /\ \E r \in Req : pc[r] = "done" /\ ReadOnly(method[r]) /\ result[r].status = Forbidden
  /\ \E r \in Req : pc[r] = "done" /\ result[r].kind = "network"

\* the reads the fallback has issued
IssuedFallbackPaths == {url[r] : r \in {q \in FallbackIds : Issued(q)}}
FiveResourcePaths ==
  {"/api/items", "/api/users", "/api/inout/orders", "/api/inventory", "/api/schedules"}
SixFallbackPaths == FiveResourcePaths \cup {"/api/dashboard/summary"}

\* C10 (as claimed): once the consolidated read has failed, the fallback
\* issues exactly the five resource reads.
C10_ExactlyFiveReads ==
  dpc \in {"fallback", "done"} /\ ConsolidatedFailed(result[ConsolidatedId])
    => IssuedFallbackPaths = FiveResourcePaths

\* C10 (amended): once the consolidated read has failed, the fallback issues
\* exactly six GET reads, the five resource reads and the dashboard summary,
\* all together, and no fallback read is issued before the consolidated
\* attempt has failed or after it succeeded.
C10_Inv ==
  /\ (\E r \in FallbackIds : Issued(r)) =>
        /\ result[ConsolidatedId].kind \notin {"pending", "ok"}
        /\ dpc \in {"fallback", "done"}
  /\ result[ConsolidatedId].kind \notin {"pending", "ok"} => dpc \in {"fallback", "done"}
  /\ (dpc \in {"fallback", "done"} /\ result[ConsolidatedId].kind # "ok") =>
        /\ IssuedFallbackPaths = SixFallbackPaths
        /\ \A r \in FallbackIds : Sends(r) = 1 /\ method[r] = "get"
  /\ (dpc = "done" /\ result[ConsolidatedId].kind # "ok") => dResult.via = "fallback"
  /\ Sends(ConsolidatedId) <= 1
C10_Step ==
  (dpc' = "fallback" /\ dpc # "fallback") => \A r \in FallbackIds : pc'[r] = "sent"
C10_SixReadsAfterFailure == []C10_Inv /\ [][C10_Step]_vars

\* the consolidated read failed without a response and the six reads are in
\* flight together
C10_Witness ==
  /\ dpc = "fallback"
  /\ result[ConsolidatedId].kind = "network"
  /\ \A r \in FallbackIds : pc[r] = "sent"

\* -------------------------------------------------- aggregator, C11..C15
FailedReads == {r \in FallbackIds : result[r].kind \notin {"pending", "ok"}}
FulfilledReads == {r \in FallbackIds : result[r].kind = "ok"}
OutstandingReads == {r \in FallbackIds : pc[r] = "sent"}

\* C11: under either client, once a fallback read has failed fetchDashboardAll
\* returns no snapshot, whichever reads fail and in whatever order they settle:
\* it has failed with the error of a failed read.
C11_NoPartialDashboard ==
  FailedReads # {} =>
    /\ dResult.kind # "snapshot"
    /\ dData = NoData
    /\ dpc = "done"
    /\ dResult.kind = "error"
    /\ \E r \in FailedReads : dResult.error = result[r]

\* the bearer client's fallback failed although five of the six reads succeeded
C11_Witness ==
  /\ variant = "bearer"
  /\ dpc = "done"
  /\ dResult.kind = "error"
  /\ Cardinality(FailedReads) = 1
  /\ Cardinality(FulfilledReads) = 5

\* C12: under either client the reported totalLoadTime runs from the start of
\* the consolidated attempt: d1 + d2 when the consolidated read fails after d1
\* and the fallback takes d2.  (The clock stands still once fetchDashboardAll
\* has returned.)
C12_MeasuredFromFirstAttempt ==
  (dpc = "done" /\ dResult.kind = "snapshot") => dResult.totalLoadTime = now - dStart

\* the field names of a snapshot at every level
FieldsOf(d) ==
  [top |-> DOMAIN d,
   summary |-> DOMAIN d.summary,
   items |-> {DOMAIN d.items[i] : i \in 1..Len(d.items)},
   users |-> {DOMAIN d.users[i] : i \in 1..Len(d.users)},
   orders |-> {DOMAIN d.orders[i] : i \in 1..Len(d.orders)},
   inventory |-> {DOMAIN d.inventory[i] : i \in 1..Len(d.inventory)},
   schedules |-> {DOMAIN d.schedules[i] : i \in 1..Len(d.schedules)}]

\* C13: a snapshot assembled by the fallback has the fields, at every level,
\* of the payload the consolidated endpoint returns for the same backend data.
C13_FieldIdentical ==
  (dpc = "done" /\ dResult.kind = "snapshot" /\ dResult.via = "fallback")
    => FieldsOf(dData) = FieldsOf(ConsolidatedPayload)

\* C14 (as claimed): fetchDashboardAll neither returns a snapshot nor reports
\* failure while a fallback read is outstanding.
C14_WaitsForAllReads ==
  (dpc = "done" /\ dResult.via = "fallback") => OutstandingReads = {}

\* C14 (amended): the fallback returns a snapshot only when all six reads have
\* settled, each successfully; it reports failure only when a read has failed,
\* with the first failure, whether or not other reads are outstanding.
C14_Step ==
  (dpc = "fallback" /\ dpc' = "done") =>
    /\ dResult'.kind = "snapshot" =>
         (OutstandingReads' = {} /\ FulfilledReads' = FallbackIds)
    /\ dResult'.kind = "error" =>
         /\ FailedReads = {} /\ Cardinality(FailedReads') = 1
         /\ dResult'.error = allRejected' /\ allRejected' # Pending
    /\ dResult'.kind \in {"snapshot", "error"}
C14_Inv ==
  /\ dpc = "fallback" => (dResult = DashPending /\ FailedReads = {})
  /\ (allRejected # Pending) <=> (FailedReads # {})
  /\ allRejected # Pending => \E r \in FailedReads : result[r] = allRejected
C14_SnapshotAfterAllFailFast == []C14_Inv /\ [][C14_Step]_vars

\* failure was reported with reads still outstanding, and a snapshot can no
\* longer follow
C14_Witness ==
  /\ dpc = "done"
  /\ dResult.kind = "error"
  /\ Cardinality(OutstandingReads) >= 2
  /\ Cardinality(FailedReads) = 1

\* C15: under either client, when the consolidated read succeeds
\* fetchDashboardAll returns its payload with the duration measured from the
\* start, after one transmission and without issuing any fallback read.
C15_ConsolidatedOnly ==
  result[ConsolidatedId].kind = "ok" =>
    /\ \A r \in FallbackIds : ~Issued(r) /\ Sends(r) = 0
    /\ Sends(ConsolidatedId) = 1
    /\ dpc = "done"
    /\ dResult.kind = "snapshot"
    /\ dResult.via = "consolidated"
    /\ dResult.totalLoadTime = now - dStart
    /\ dData = ConsolidatedPayload

\* the consolidated read succeeded after the clock had advanced
C15_Witness ==
  /\ dpc = "done"
  /\ result[ConsolidatedId].kind = "ok"
  /\ dResult.totalLoadTime >= 1
  /\ dData.users = BackendUsers

\* ---------------------------------------------- order operations, C16..C20
P1 == ProbeId(1)
P2 == ProbeId(2)
P3 == ProbeId(3)
Rejected(r) == pc[r] = "done" /\ result[r].kind # "ok"
RejectedWith405(r) == Rejected(r) /\ result[r].status = MethodNotAllowed
Fulfilled(r) == pc[r] = "done" /\ result[r].kind = "ok"

\* C16: under either client updateInOutRecord probes PUT <order>/status, then
\* PATCH <order>, then PUT <order>; a step is issued only after the step
\* before it was rejected with 405; with 405, 405 and success answered to the
\* three requests it makes exactly three transmissions and returns the result
\* of step 3; a step that succeeds ends the operation with its result.
C16_ProbeOrder ==
  op = "updateInOutRecord" =>
    /\ Issued(P1) =>
         (method[P1] = "put" /\ url[P1] = OrderPath(numericOrderId, "/status"))
    /\ Issued(P2) =>
         /\ method[P2] = "patch" /\ url[P2] = OrderPath(numericOrderId, "")
         /\ RejectedWith405(P1)
    /\ Issued(P3) =>
         /\ method[P3] = "put" /\ url[P3] = OrderPath(numericOrderId, "")
         /\ RejectedWith405(P2)
    /\ \A k \in 1..3 : Fulfilled(ProbeId(k)) =>
         /\ \A j \in (k + 1)..3 : ~Issued(ProbeId(j))
         /\ opc = "done"
         /\ oResult = result[ProbeId(k)]
    /\ (opc = "done" /\ Fulfilled(P3) /\ result[P1].attempt = 1 /\ result[P2].attempt = 1
          /\ result[P3].attempt = 1) =>
         (Sends(P1) = 1 /\ Sends(P2) = 1 /\ Sends(P3) = 1 /\ oResult = Success(hist[P3]))

\* the session client's updateInOutRecord succeeded at step 3 after two 405s
C16_Witness ==
  /\ variant = "session"
  /\ op = "updateInOutRecord"
  /\ opc = "done"
  /\ oResult.kind = "ok"
  /\ RejectedWith405(P1) /\ RejectedWith405(P2) /\ Fulfilled(P3)
  /\ Sends(P1) + Sends(P2) + Sends(P3) = 3

\* C17: under either client, when step 1 or step 2 of updateInOutRecord is
\* rejected with anything but a 405 (a transport failure included), no later
\* step is issued and the caller gets the error of that step.
C17_OtherFailuresPropagate ==
  op = "updateInOutRecord" =>
    \A k \in 1..2 :
      (Rejected(ProbeId(k)) /\ result[ProbeId(k)].status # MethodNotAllowed) =>
        /\ \A j \in (k + 1)..3 : ~Issued(ProbeId(j)) /\ hist[ProbeId(j)] = <<>>
        /\ opc = "done"
        /\ oResult = result[ProbeId(k)]

\* step 2 failed without a response and that error reached the caller
C17_Witness ==
  /\ op = "updateInOutRecord"
  /\ opc = "done"
  /\ RejectedWith405(P1)
  /\ oResult.kind = "network"
  /\ oResult = result[P2]
  /\ ~Issued(P3)

\* the identifiers whose text before the first '-' is not a positive integer
NotPositiveLeading ==
  {StringId(<<"a", "b", "c", "-", "3">>), StringId(<<"1", "2", "a", "-", "3">>),
   StringId(<<>>), StringId(<<"0", "-", "3">>), StringId(<<"-", "5", "-", "3">>),
   StringId(<<"0", "b", "1", "1", "-", "3">>)}

\* C18: an operation called with an identifier whose leading segment is not a
\* positive integer fails with the invalid-identifier error and issues no
\* request and no token acquisition.
C18_InvalidIdentifierRejected ==
  (op # "none" /\ ident \in NotPositiveLeading) =>
    /\ opc = "done"
    /\ oResult = InvalidIdentifier
    /\ \A r \in ProbeIds : ~Issued(r) /\ hist[r] = <<>>

\* the paths that address order n
PathsOfOrder482 ==
  {"/api/inout/orders/482/status", "/api/inout/orders/482/cancel", "/api/inout/orders/482"}
PathsOfOrder3 ==
  {"/api/inout/orders/3/status", "/api/inout/orders/3/cancel", "/api/inout/orders/3"}

\* C19: under either client, an operation called with "482-3" (or "3-482")
\* takes 482 (or 3) as the order id, issues its first request, and every request
\* it issues targets a path of order 482 (or 3).
C19_AddressedByOrderId ==
  /\ (op # "none" /\ ident = StringId(<<"4", "8", "2", "-", "3">>)) =>
       /\ numericOrderId = Num(482)
       /\ Issued(P1)
       /\ \A r \in ProbeIds : Issued(r) => url[r] \in PathsOfOrder482
  /\ (op # "none" /\ ident = StringId(<<"3", "-", "4", "8", "2">>)) =>
       /\ numericOrderId = Num(3)
       /\ Issued(P1)
       /\ \A r \in ProbeIds : Issued(r) => url[r] \in PathsOfOrder3

\* updateInOutRecord("3-482", ...) reached its third step
C19_Witness ==
  /\ op = "updateInOutRecord"
  /\ ident = StringId(<<"3", "-", "4", "8", "2">>)
  /\ Issued(P3)
  /\ url[P3] = "/api/inout/orders/3"

\* C20: every request that leaves the session client, the token-acquisition
\* requests included, carries the _t parameter.
C20_EveryRequestCarriesTimestamp ==
  \A r \in Req :
    /\ Sends(r) >= 1 => tparam[r] # NoParam
    /\ \A i \in 1..Len(acqCalls[r]) : acqCalls[r][i].t # NoParam

\* ------------------------------------------------------- error propagation
\* C21 (as claimed): a failure is dropped only where updateInOutRecord reacts
\* to a 405 by probing on; a failure of token acquisition reaches the caller
\* of the request as that failure, also when it occurs while recovering from
\* a 403; and the failure of an operation's last request is the operation's.
C21_OnlyDesignedSwallows ==
  \A k \in 1..MaxProbes :
    LET r == ProbeId(k)
        last == k = MaxProbes \/ ~Issued(ProbeId(k + 1))
    IN /\ (pc[r] = "done" /\ acqErr[r] # Pending) => result[r] = acqErr[r]
       /\ (Rejected(r) /\ ~last) => (op = "updateInOutRecord" /\ result[r].status = MethodNotAllowed)
       /\ (Rejected(r) /\ last /\ opc = "done") => oResult = result[r]

\* ------------------------------------------------------ bearer client, C22
\* C22: in the bearer client a request of any verb is transmitted once, with
\* the Authorization header exactly when localStorage held a token as the
\* request passed the interceptor, and then with that token; no token is ever
\* acquired and no request retried; no step of a request writes the stored
\* token, and a response, whatever its status, changes nothing but the
\* outcome of its request.
C22_Inv ==
  /\ CSRF_TOKEN = NoToken
  /\ \A r \in Req :
       /\ Acquisitions(r) = 0
       /\ Reissues(r) = 0
       /\ ~retriedOnce[r]
       /\ Issued(r) =>
            /\ Len(hist[r]) = 2
            /\ hist[r][1].ev = "intercept"
            /\ hist[r][2].ev = "send"
            /\ hist[r][2].tok = hist[r][1].tok
            /\ authorization[r] = hist[r][2].tok
C22_Step ==
  /\ pc' # pc => authToken' = authToken
  /\ \A r \in Req :
       /\ (pc[r] = "idle" /\ pc'[r] # "idle") =>
            /\ hist'[r][1].tok = authToken
            /\ pc'[r] = "sent"
       /\ pc[r] = "sent" /\ pc'[r] # "sent" =>
            /\ pc'[r] = "done"
            /\ hist' = hist
            /\ authorization' = authorization
            /\ CSRF_TOKEN' = CSRF_TOKEN
       /\ pc[r] = "done" => pc'[r] = "done"
C22_BearerHeaderOnly == []C22_Inv /\ [][C22_Step]_vars

\* one request went out without the header and was answered 403, the other
\* went out after a login with the token stored by then and was answered 403
\* too; the stored token is still that one
C22_Witness ==
  \E r \in Req, q \in Req :
    /\ StateMutating(method[r]) /\ ReadOnly(method[q])
    /\ Issued(r) /\ Issued(q)
    /\ hist[r][2] = Ev("send", NoToken)
    /\ hist[q][2] = Ev("send", StoredToken)
    /\ pc[r] = "done" /\ result[r].status = Forbidden
    /\ pc[q] = "done" /\ result[q].status = Forbidden
    /\ authToken = StoredToken

\* ---------------------------------------------- order operations, C23, C30
\* C23 (as claimed): updateOrderStatus and cancelInOutOrder try no other verb
\* or path, and a 405 reaches their caller after exactly one transmission.
C23_OneTransmission ==
  op \in {"updateOrderStatus", "cancelInOutOrder"} =>
    /\ ~Issued(P2) /\ ~Issued(P3)
    /\ RejectedWith405(P1) =>
         /\ Sends(P1) = 1
         /\ opc = "done"
         /\ oResult = result[P1]

\* C23 (amended): under either client updateOrderStatus and cancelInOutOrder
\* issue one request, a PUT to their own path, and nothing else; when it is
\* rejected with 405 the operation fails with that 405, which answers the
\* request's last transmission: its only one, or, in the session client, the
\* one retry that followed a first attempt answered 403.
C23_ProbingOnlyInUpdater ==
  op \in {"updateOrderStatus", "cancelInOutOrder"} =>
    /\ ~Issued(P2) /\ ~Issued(P3)
    /\ Issued(P1) =>
         /\ method[P1] = "put"
         /\ url[P1] = OrderPath(numericOrderId,
                        IF op = "updateOrderStatus" THEN "/status" ELSE "/cancel")
    /\ RejectedWith405(P1) =>
         /\ Sends(P1) = result[P1].attempt
         /\ Sends(P1) \in {1, 2}
         /\ Sends(P1) = 2 <=>
              /\ variant = "session"
              /\ retriedOnce[P1] /\ Reissues(P1) = 1
              /\ origErr[P1] = [kind |-> "http", status |-> Forbidden, attempt |-> 1,
                                hasConfig |-> TRUE]
         /\ opc = "done"
         /\ oResult = result[P1]

\* cancelInOutOrder was answered 403, recovered, was answered 405 on the retry
\* and has thrown that 405 after two transmissions
C23_Witness ==
  /\ op = "cancelInOutOrder"
  /\ RejectedWith405(P1)
  /\ Sends(P1) = 2
  /\ opc = "done"
  /\ oResult.status = MethodNotAllowed

\* C30: under either client updateInOutRecord issues at most three requests;
\* once step 3 (PUT <order>) has failed, with a 405 or anything else, no
\* further request is issued, the requests of steps 1 and 2 are not
\* transmitted again, and the operation fails with the failure of step 3.
C30_AtMostThreeProbes ==
  /\ ~Issued(ProbeId(MaxProbes + 1))
  /\ (op = "updateInOutRecord" /\ Rejected(P3)) =>
       /\ RejectedWith405(P1) /\ Sends(P1) = result[P1].attempt
       /\ RejectedWith405(P2) /\ Sends(P2) = result[P2].attempt
       /\ Sends(P3) = result[P3].attempt
       /\ opc = "done"
       /\ oResult = result[P3]

\* step 3 was itself rejected with 405 and updateInOutRecord has thrown that
C30_Witness ==
  /\ op = "updateInOutRecord"
  /\ RejectedWith405(P3)
  /\ opc = "done"
  /\ oResult = result[P3]

\* ------------------------------------------------------- termination, C24
\* C24: when every transport call settles, every request issued through the
\* session client completes, with a result or an error, whatever the answers
\* are (403 to every transmission included). A request is transmitted at most
\* twice and acquires a token at most twice; while fetchCsrfToken() runs for
\* it nothing else happens on its behalf, and the calls of fetchCsrfToken()
\* are the two token endpoints, fetched outside the pipeline (no _t, hence no
\* acquisition of their own).
C24_Bounded ==
  \A r \in Req :
    /\ Sends(r) <= 2
    /\ Acquisitions(r) <= 2
    /\ pc[r] = "acquiring" =>
         /\ hist[r][Len(hist[r])].ev = "acquire"
         /\ Len(acqCalls[r]) \in {1, 2}
         /\ \A i \in 1..Len(acqCalls[r]) :
              /\ acqCalls[r][i].url = <<PrimaryPath, SecondaryPath>>[i]
              /\ acqCalls[r][i].t = NoParam
    /\ pc[r] = "done" => result[r] # Pending
C24_EveryRequestCompletes ==
  /\ []C24_Bounded
  /\ \A r \in Req : Issued(r) ~> pc[r] = "done"

\* every mutating request was answered 403 to both of its transmissions and
\* has completed with the second 403
C24_Witness ==
  \A r \in Req :
    /\ StateMutating(method[r])
    /\ pc[r] = "done"
    /\ Acquisitions(r) >= 1
    /\ result[r] = HttpError(hist[r], Forbidden)
    /\ Sends(r) = 2

\* --------------------------------------------------- cache busting, C25
InterceptsOf(r) == {i \in 1..Len(hist[r]) : hist[r][i].ev = "intercept"}

\* C25: under either client, two passes through the request interceptor made
\* at different clock readings, by two requests or by a request and its retry
\* (same path, same body), are given different _t values; the value a request
\* carries is the one its latest pass gave it.
C25_DistinctCacheBusters ==
  \A r \in Req :
    /\ \A q \in Req : \A i \in InterceptsOf(r) : \A j \in InterceptsOf(q) :
         hist[r][i].at # hist[q][j].at => hist[r][i].t # hist[q][j].t
    /\ \A i \in InterceptsOf(r) :
         (\A j \in InterceptsOf(r) : j <= i) => tparam[r] = hist[r][i].t

\* a request was retried at a later clock reading than its first attempt, and
\* another request with the same path went out at a third reading
C25_Witness ==
  \E r \in Req, q \in Req :
    /\ r # q /\ url[r] = url[q]
    /\ Cardinality(InterceptsOf(r)) = 2
    /\ Cardinality({hist[r][i].at : i \in InterceptsOf(r)} \cup
                   {hist[q][j].at : j \in InterceptsOf(q)}) = 3
    /\ Sends(r) = 2

\* ------------------------------------------- concurrent requests, C26..C27
\* the acquisitions that returned a token: <<r, i>> when step i of request r
\* begins an acquisition and step i + 1 is the token it returned
SuccessfulAcquisitions ==
  UNION {{<<r, i>> : i \in {k \in 1..(Len(hist[r]) - 1) :
                              hist[r][k].ev = "acquire" /\ hist[r][k + 1].ev = "acquired"}}
         : r \in Req}
TokenReturnedBy(a) == hist[a[1]][a[2] + 1].tok
AcquiredTokens == {TokenReturnedBy(a) : a \in SuccessfulAcquisitions}

\* What the histories tell about the order in which acquisitions started:
\* those of one request start in the order of their steps, and an
\* acquisition begun in the step that issued its request (its second step)
\* started before every acquisition of a request issued later (requests are
\* numbered in the order they are issued).
StartedBefore(a, b) ==
  \/ a[1] = b[1] /\ a[2] < b[2]
  \/ a[1] < b[1] /\ a[2] = 2

\* an acquisition returned its token in this step
Returned(r) == Count(hist'[r], "acquired") > Count(hist[r], "acquired")

\* C26 (as claimed): the token the store holds was returned by the most
\* recently started successful acquisition: it is the token of a successful
\* acquisition after which no successful acquisition started.
C26_LatestStartedWins ==
  CSRF_TOKEN # NoToken =>
    \E a \in SuccessfulAcquisitions :
      /\ TokenReturnedBy(a) = CSRF_TOKEN
      /\ ~\E b \in SuccessfulAcquisitions : StartedBefore(a, b)

\* C26 (amended): the token the store holds was returned by the most recently
\* completed successful acquisition: every acquisition that returns a token
\* stores it over whatever is held, and the store is otherwise written only
\* when a recovery empties it.
C26_Inv == CSRF_TOKEN # NoToken => CSRF_TOKEN \in AcquiredTokens
C26_Step ==
  /\ \A r \in Req : Returned(r) =>
       /\ CSRF_TOKEN' = hist'[r][Len(hist[r]) + 1].tok
       /\ hist'[r][Len(hist[r]) + 1].ev = "acquired"
  /\ (CSRF_TOKEN' # CSRF_TOKEN /\ ~\E r \in Req : Returned(r)) =>
       /\ CSRF_TOKEN' = NoToken
       /\ \E r \in Req : Count(hist'[r], "discard") > Count(hist[r], "discard")
C26_LatestCompletedWins == []C26_Inv /\ [][C26_Step]_vars

\* two requests began acquiring one after the other and were handed
\* different tokens; the second's acquisition returned first and the
\* first's overwrote it: the store holds the token of the acquisition that
\* started earlier
C26_Witness ==
  /\ SuccessfulAcquisitions = {<<1, 2>>, <<2, 2>>}
  /\ TokenReturnedBy(<<1, 2>>) # TokenReturnedBy(<<2, 2>>)
  /\ CSRF_TOKEN = TokenReturnedBy(<<1, 2>>)
  /\ \A r \in Req : Acquisitions(r) = 1 /\ Count(hist[r], "discard") = 0

\* C27: whatever other requests do meanwhile, a state-mutating request makes
\* at most two token acquisitions: at most one before its first transmission
\* and at most one after it, which is the recovery's (it follows the
\* invalidation directly); once the request has been re-issued it acquires
\* no more, also when another request empties the store right after this
\* request's recovery acquisition.
C27_AtMostTwoAcquisitions ==
  \A r \in Req : StateMutating(method[r]) =>
    LET h == hist[r]
        acq == {i \in 1..Len(h) : h[i].ev = "acquire"}
        afterSend(i) == \E j \in 1..(i - 1) : h[j].ev = "send"
        afterReissue(i) == \E j \in 1..(i - 1) : h[j].ev = "reissue"
    IN /\ Cardinality(acq) <= 2
       /\ Cardinality({i \in acq : ~afterSend(i)}) <= 1
       /\ Cardinality({i \in acq : afterSend(i)}) <= 1
       /\ \A i \in acq : afterSend(i) => h[i - 1].ev = "discard"
       /\ \A i \in acq : ~afterReissue(i)

\* a request has acquired twice and its retry is in flight with the token of
\* its recovery, while another request's recovery has already emptied the
\* store again and is acquiring
C27_Witness ==
  \E r \in Req, q \in Req :
    /\ r # q
    /\ pc[r] = "sent" /\ Sends(r) = 2 /\ Acquisitions(r) = 2
    /\ header[r] # NoToken
    /\ hist[r][Len(hist[r]) - 3] = Ev("acquired", header[r])
    /\ CSRF_TOKEN = NoToken
    /\ pc[q] = "acquiring" /\ acqFrom[q] = "recovery"

\* ------------------------------------- failed token acquisition, C28..C29
\* fetchCsrfToken() threw in this step, for request r
AcquisitionFailed(r) == Count(hist'[r], "acqFailed") > Count(hist[r], "acqFailed")

\* a recovery emptied the store in this step, for request r
Discarded(r) == Count(hist'[r], "discard") > Count(hist[r], "discard")

\* if the store changes in this step, a request other than r wrote it: its
\* acquisition returned and stored the token, or its recovery emptied the
\* store
WrittenByAnother(r) ==
  CSRF_TOKEN' # CSRF_TOKEN =>
    \E q \in Req \ {r} :
      \/ Returned(q) /\ CSRF_TOKEN' = hist'[q][Len(hist[q]) + 1].tok
      \/ Discarded(q) /\ CSRF_TOKEN' = NoToken

\* the request before r ended with a recovery that could not get a token, and
\* a caller issues r, state-mutating, in this step
IssuedAfterFailedRecovery(r) ==
  /\ r > 1 /\ pc[r] = "idle" /\ pc'[r] # "idle" /\ StateMutating(method'[r])
  /\ retriedOnce[r - 1] /\ hist[r - 1][Len(hist[r - 1])].ev = "acqFailed"

\* C28 (as claimed): when fetchCsrfToken() fails during the recovery from a
\* 403, the request is not re-issued (it stays at one transmission), its
\* caller gets the 403 of the first attempt, and the store is left empty; a
\* state-mutating request issued next starts with an acquisition of its own.
C28_ClaimedStep ==
  \A r \in Req :
    /\ (AcquisitionFailed(r) /\ acqFrom[r] = "recovery") =>
         /\ pc'[r] = "done"
         /\ Reissues(r) = 0 /\ hist'[r] = hist[r] \o <<Ev("acqFailed", NoToken)>>
         /\ Count(hist'[r], "send") = 1
         /\ result'[r] = [kind |-> "http", status |-> Forbidden, attempt |-> 1, hasConfig |-> TRUE]
         /\ CSRF_TOKEN' = NoToken
    /\ IssuedAfterFailedRecovery(r) =>
         /\ pc'[r] = "acquiring"
         /\ hist'[r] = <<Intercept(NoToken, now, tparam'[r]), Ev("acquire", NoToken)>>
         /\ header'[r] = NoToken
C28_Step ==
  \A r \in Req :
    /\ Discarded(r) => (CSRF_TOKEN' = NoToken /\ pc'[r] = "acquiring" /\ acqFrom'[r] = "recovery")
    /\ (pc[r] = "acquiring" /\ acqFrom[r] = "recovery" /\ pc'[r] = "acquiring") =>
         WrittenByAnother(r)
    /\ (AcquisitionFailed(r) /\ acqFrom[r] = "recovery") =>
         /\ pc'[r] = "done"
         /\ Reissues(r) = 0 /\ hist'[r] = hist[r] \o <<Ev("acqFailed", NoToken)>>
         /\ Count(hist'[r], "send") = 1
         /\ result'[r] = [kind |-> "http", status |-> Forbidden, attempt |-> 1, hasConfig |-> TRUE]
         /\ CSRF_TOKEN' = CSRF_TOKEN
    /\ IssuedAfterFailedRecovery(r) =>
         IF CSRF_TOKEN = NoToken
         THEN /\ pc'[r] = "acquiring"
              /\ hist'[r] = <<Intercept(NoToken, now, tparam'[r]), Ev("acquire", NoToken)>>
              /\ header'[r] = NoToken
         ELSE /\ pc'[r] = "sent"
              /\ header'[r] = CSRF_TOKEN
              /\ CSRF_TOKEN' = CSRF_TOKEN
C29_Inv ==
  \A r \in Req :
    (pc[r] = "done" /\ ~retriedOnce[r] /\ acqErr[r] # Pending) =>
      /\ StateMutating(method[r])
      /\ hist[r][1].tok = NoToken
      /\ Sends(r) = 0
      /\ result[r] = acqErr[r]

\* C29 (as claimed): when fetchCsrfToken() fails for a state-mutating request
\* issued with the store empty, the request is never transmitted, its caller
\* gets the error fetchCsrfToken() threw, and the store remains empty.
C29_ClaimedStep ==
  \A r \in Req :
    (AcquisitionFailed(r) /\ acqFrom[r] = "request") =>
      /\ pc'[r] = "done"
      /\ Count(hist'[r], "send") = 0
      /\ acqErr'[r] \in {TokenUnavailable, FetchTypeError, JsonSyntaxError}
      /\ result'[r] = acqErr'[r]
      /\ CSRF_TOKEN = NoToken /\ CSRF_TOKEN' = NoToken
C29_StoreRemainsEmpty == []C29_Inv /\ [][C29_ClaimedStep]_vars

\* C29 (amended): when fetchCsrfToken() fails for a state-mutating request
\* issued with the store empty, the request is never transmitted and its
\* caller gets the error fetchCsrfToken() threw. The request writes the store
\* neither while its acquisition is pending nor when it fails; only other
\* requests write it meanwhile. So the store remains empty unless the
\* acquisition of a concurrent request stored its token meanwhile.
C29_Step ==
  \A r \in Req :
    /\ (pc[r] = "idle" /\ pc'[r] = "acquiring") =>
         (CSRF_TOKEN = NoToken /\ CSRF_TOKEN' = NoToken /\ acqFrom'[r] = "request")
    /\ (pc[r] = "acquiring" /\ acqFrom[r] = "request" /\ pc'[r] = "acquiring") =>
         WrittenByAnother(r)
    /\ (AcquisitionFailed(r) /\ acqFrom[r] = "request") =>
         /\ pc'[r] = "done"
         /\ Count(hist'[r], "send") = 0
         /\ acqErr'[r] \in {TokenUnavailable, FetchTypeError, JsonSyntaxError}
         /\ result'[r] = acqErr'[r]
         /\ CSRF_TOKEN' = CSRF_TOKEN
C29_FailedAcquisition == []C29_Inv /\ [][C29_Step]_vars

\* two POSTs were issued with the store empty; the acquisition of one failed
\* with the token-unavailable error and the request was never transmitted;
\* the acquisition of the other returned a token, which the store holds
C29_Witness ==
  \E r \in Req, q \in Req :
    /\ r # q
    /\ method[r] = "post" /\ method[q] = "post"
    /\ hist[r][1].tok = NoToken /\ hist[q][1].tok = NoToken
    /\ pc[r] = "done"
    /\ result[r] = TokenUnavailable
    /\ Sends(r) = 0
    /\ Acquisitions(q) = 1 /\ Count(hist[q], "acquired") = 1
    /\ CSRF_TOKEN # NoToken
    /\ CSRF_TOKEN = header[q]

\* ------------------------------------------- probing and recovery, C31
\* C31: in the session client every step of updateInOutRecord is a request
\* of its own: whatever the other steps went through, a first 403 on a step
\* is recovered (one acquisition, one retry of the same verb and path) unless
\* the token cannot be acquired; a step is transmitted at most twice, so the
\* call makes at most six transmissions; and the next step is issued only
\* on the 405 that answered the step's last transmission.
C31_StepsRetryIndependently ==
  (variant = "session" /\ op = "updateInOutRecord") =>
    /\ Sends(P1) + Sends(P2) + Sends(P3) <= 6
    /\ \A k \in 1..MaxProbes :
         LET r == ProbeId(k)
             h == hist[r]
         IN /\ Sends(r) <= 2 /\ Reissues(r) <= 1
            /\ Issued(r) =>
                 /\ method[r] = <<"put", "patch", "put">>[k]
                 /\ url[r] = OrderPath(numericOrderId, <<"/status", "", "">>[k])
            /\ (pc[r] = "done" /\ result[r].status = Forbidden /\ result[r].attempt = 1) =>
                 (retriedOnce[r] /\ h[Len(h)].ev = "acqFailed")
            /\ (retriedOnce[r] /\ pc[r] \in {"sent", "done"} /\ h[Len(h)].ev # "acqFailed") =>
                 (Reissues(r) = 1 /\ Sends(r) = 2)
            /\ (k < MaxProbes /\ Issued(ProbeId(k + 1))) =>
                 (RejectedWith405(r) /\ result[r].attempt = Sends(r))

\* each of the three steps was answered 403, retried once, and the call has
\* ended after six transmissions
C31_Witness ==
  /\ variant = "session" /\ op = "updateInOutRecord"
  /\ \A k \in 1..MaxProbes : retriedOnce[ProbeId(k)] /\ Sends(ProbeId(k)) = 2
  /\ opc = "done"

\* ------------------------------------------- the aggregator's reads, C32
\* C32: in the session client every request fetchDashboardAll issues, on the
\* consolidated path and on the fallback path, is a GET that is transmitted
\* once, carries no CSRF token, starts no token acquisition and no
\* invalidation, and is not re-issued when it is answered 403; no step of
\* the aggregator, whether it ends with a snapshot or an error, changes the
\* token store.
C32_Inv ==
  \A r \in DashReads :
    /\ Issued(r) =>
         /\ method[r] = "get"
         /\ Sends(r) = 1
         /\ header[r] = NoToken
    /\ Acquisitions(r) = 0
    /\ Count(hist[r], "discard") = 0
    /\ Reissues(r) = 0
    /\ ~retriedOnce[r]
    /\ acqCalls[r] = <<>>
    /\ (pc[r] = "done" /\ result[r].kind # "ok") => result[r].attempt = 1
C32_Step == CSRF_TOKEN' = CSRF_TOKEN
C32_ReadsLeaveStoreAlone == []C32_Inv /\ [][C32_Step]_vars

\* with a token cached, the consolidated read and a fallback read were each
\* answered 403 after one transmission, the aggregator has failed with that
\* error, and the store still holds the token
C32_Witness ==
  /\ CSRF_TOKEN = CachedToken
  /\ result[ConsolidatedId].status = Forbidden
  /\ dpc = "done"
  /\ dResult.kind = "error"
  /\ dResult.error.status = Forbidden
  /\ \E r \in FallbackIds : result[r].status = Forbidden /\ Sends(r) = 1

====
